---- MODULE Spec2Model ----
(***************************************************************************)
(* Booking core of the barbershop API: reservacionController (public      *)
(* booking flow), citaController (staff/admin appointment lifecycle) and   *)
(* the tables they write (citas, pagos, cita_servicio, clientes).          *)
(* Times are minutes since midnight; a date is a day number whose weekday  *)
(* is fecha % 7 (0 = domingo).                                             *)
(***************************************************************************)
EXTENDS Integers, Sequences, FiniteSets, TLC

\* Number of POST /reservacion/procesar requests in a behaviour.
MaxReq == 2

\* Number of push dispatches in a behaviour.
MaxEnvios == 2

Reqs == 1..MaxReq
Usuarios == {1, 2}
Empleados == {1, 2}
Fechas == {0, 1}
Estados == {"pendiente", "confirmada", "en_proceso", "completada", "cancelada"}

\* ------------------------------------------------------------------ data
\* servicios table: id -> precio, duracion (minutes).  Id 3 is not a row.
servicios == [id \in {1, 2} |-> IF id = 1 THEN [precio |-> 10, duracion |-> 30]
                                          ELSE [precio |-> 20, duracion |-> 60]]

\* usuarios table: rol_id 1 administrador, 2 empleado, 3 cliente, 4 dueno.
\* Users 1 and 2 are the customers of Usuarios; user 6 is deactivated.  The
\* firebase_uid of a seeded user is its id.
TablaUsuarios ==
  [id \in 1..6 |->
     [rol_id |-> CASE id \in {1, 2} -> 3 [] id \in {3, 6} -> 2 [] id = 4 -> 1 [] id = 5 -> 4,
      activo |-> id # 6, firebase_uid |-> id]]

\* empleados table: staff 3 is deactivated, staff 4 belongs to the
\* deactivated user 6.  Bookings name staff 1 and 2 (Empleados).
TablaEmpleados ==
  [e \in 1..4 |-> [usuario_id |-> e + 2, activo |-> e # 3]]

\* notificaciones_push table: the device tokens registered per user; the row
\* of user 4 is switched off.
notificaciones_push ==
  { [usuario_id |-> 1, token_dispositivo |-> "t1", activo |-> TRUE],
    [usuario_id |-> 1, token_dispositivo |-> "t2", activo |-> TRUE],
    [usuario_id |-> 2, token_dispositivo |-> "t3", activo |-> TRUE],
    [usuario_id |-> 3, token_dispositivo |-> "t4", activo |-> TRUE],
    [usuario_id |-> 4, token_dispositivo |-> "t5", activo |-> FALSE] }

\* empleado_servicio table: the services each staff member offers.
empleado_servicio == [e \in DOMAIN TablaEmpleados |-> IF e = 1 THEN {1} ELSE {1, 2}]

\* horarios_empleado table: working windows per staff member and weekday.
HorariosEmpleado(e, dia) ==
  IF e = 1 THEN (IF dia = 1 THEN {[ini |-> 540, fin |-> 1080]} ELSE {})
  ELSE (IF dia = 1 THEN {[ini |-> 540, fin |-> 780], [ini |-> 840, fin |-> 1110]}
        ELSE {[ini |-> 570, fin |-> 840]})

\* ausencias_empleado table: absence intervals of a staff member on a date.
AusenciasEmpleado(e, fecha) ==
  IF e = 2 /\ fecha = 1 THEN {[ini |-> 600, fin |-> 660]} ELSE {}

\* ---------------------------------------------------------------- inputs
\* One entry of req.body.servicios; duracion 0 stands for an absent field.
Item(id, cantidad, duracion) == [id |-> id, cantidad |-> cantidad, duracion |-> duracion]

ListasServicios ==
  { <<Item(1, 1, 0)>>, <<Item(2, 1, 60)>>, <<Item(3, 1, 0), Item(1, 1, 0)>> }

HorariosPedidos == {555, 585}

\* req.body of POST /reservacion/procesar; total 0 is a missing total.
Bodies ==
  [empleadoId : Empleados, servicios : ListasServicios, fecha : {1},
   horario : HorariosPedidos, total : {0, 30}]

\* An absent req.query.fecha.
SinFecha == -1

\* Query strings of GET /reservacion/horarios; 0, SinFecha and <<>> are absent
\* params.
ConsultasHorarios ==
  [empleadoId : Empleados \cup {0}, fecha : Fechas \cup {SinFecha},
   servicios : {<<>>, <<1>>, <<2>>}]

\* req.query.servicios of GET /reservacion/empleados, split at the commas;
\* <<>> is an absent parameter.
ConsultasEmpleados == {<<>>, <<1>>, <<2>>, <<1, 2>>, <<3>>}

CitaIds == 1..MaxReq

\* Calls of the auth service that can be under way together.
MaxLogins == 2

Procs == 1..MaxLogins

VARIABLES citas, citaAutoInc, pagos, cita_servicio, clientes, clienteAutoInc,
          reqs, res, http, fcm_token, envios, calendario,
          filas_pago,
          usuarios,
          empleados,
          logins,
          emp,
          perfiles,
          permiso,
          limiter

vars == <<citas, citaAutoInc, pagos, cita_servicio, clientes, clienteAutoInc,
          reqs, res, http, fcm_token, envios, calendario,
          filas_pago,
          usuarios,
          empleados,
          logins,
          emp,
          perfiles,
          permiso,
          limiter>>

tablas == <<citas, citaAutoInc, pagos, cita_servicio, clientes, clienteAutoInc>>

\* The state of the booking and appointment handlers.
reserva == <<tablas, reqs, res>>

\* The state of the services that the booking, auth and push code leaves
\* alone.
anexos == <<calendario, filas_pago, usuarios, empleados, logins, emp, perfiles, permiso, limiter>>

\* The account tables that the auth service and the empleado controller
\* write, with the calls and the request under way.
cuentas == <<usuarios, empleados, logins, emp, perfiles>>

\* The request in the auth middleware and the state of the push service.
otros == <<http, fcm_token, envios, anexos>>

\* ------------------------------------------------------- pure functions
RECURSIVE SumaDuracion(_)
\* servicios.reduce((total, s) => total + (s.duracion || 30) * s.cantidad, 0)
SumaDuracion(lista) ==
  IF lista = <<>> THEN 0
  ELSE (IF Head(lista).duracion = 0 THEN 30 ELSE Head(lista).duracion)
         * Head(lista).cantidad + SumaDuracion(Tail(lista))

\* inicioDate.setMinutes(+duracionTotal); toTimeString().slice(0,5): the
\* time of day of the end, written back onto the same fecha.
HoraFin(horario, duracionTotal) == (horario + duracionTotal) % 1440

\* new Date(fecha).getDay()
DiaSemana(fecha) == fecha % 7

HorariosDomingo == {570, 600, 630, 660, 690, 720, 750, 780, 810}

HorariosLunesSabado ==
  {555, 585, 615, 645, 675, 705, 735, 765,
   855, 885, 915, 945, 975, 1005, 1035, 1065, 1095}

\* The slot list getHorariosDisponibles answers with.
HorariosLibres(empleadoId, fecha) ==
  LET horariosDisponibles ==
        IF DiaSemana(fecha) = 0 THEN HorariosDomingo ELSE HorariosLunesSabado
      horariosOcupados == {}
  IN {h \in horariosDisponibles : h \notin horariosOcupados}

SinRespuesta == [handler |-> "ninguno", status |-> 0, empleadoId |-> 0,
                 fecha |-> 0, servicios |-> <<>>, horarios |-> {}, empleados |-> {}]

Respuesta(handler, status) ==
  [SinRespuesta EXCEPT !.handler = handler, !.status = status]

\* new ErrorResponse(message, statusCode): an Error with a statusCode field;
\* its name stays "Error", it has no code and is no Joi error.
ErrorResponse(statusCode) ==
  [isJoi |-> FALSE, code |-> "", name |-> "Error", statusCode |-> statusCode]

\* The status the application's error handler answers an error with.
errorHandler(err) ==
  IF err.isJoi THEN 400
  ELSE IF err.code = "ER_DUP_ENTRY" THEN 409
  ELSE IF err.code \in {"ER_NO_REFERENCED_ROW_2", "ER_ROW_IS_REFERENCED_2"} THEN 400
  ELSE IF err.name \in {"JsonWebTokenError", "TokenExpiredError"} THEN 401
  ELSE IF err.name = "PermissionError" THEN 403
  ELSE IF err.name = "ValidationError" THEN 400
  ELSE IF err.name = "NotFoundError" THEN 404
  ELSE IF err.name = "ConflictError" THEN 409
  ELSE 500

\* return next(new ErrorResponse(message, statusCode)) in a handler.
RespuestaError(handler, statusCode) ==
  Respuesta(handler, errorHandler(ErrorResponse(statusCode)))

\* A request on its way through the auth middleware: idx counts the layers
\* started, micro is the queue of suspended middleware (P protect, A
\* authorize), io the handlers awaiting their queries, enviado the status of
\* the response sent (0 while none is), llamadas the calls of next() made
\* with the next of each layer, tardio whether one of them came after a
\* response had been sent.
HttpLibre ==
  [pc |-> "libre", cabecera |-> "ausente", decoded |-> 0, ruta |-> "",
   req_usuario |-> 0, enviado |-> 0, idx |-> 0, micro |-> <<>>, io |-> 0,
   ejecuciones |-> 0, llamadas |-> [protect |-> 0, authorize |-> 0],
   tardio |-> FALSE]

\* The push service's history: n dispatches have called sendMulticast, the
\* last one of kind tipo for the device tokens tokens, of which entregados
\* were delivered; fallidos are the tokens any dispatch was told had failed.
SinEnvios == [n |-> 0, tipo |-> "ninguno", tokens |-> {}, entregados |-> {},
              fallidos |-> {}]

\* A call of the auth service: pc is its position, usuario and activo the row
\* that buscarUsuarioPorFirebaseUid read, resultado what the call came to.
LoginLibre == [pc |-> "libre", op |-> "ninguna", uid |-> 0, usuario |-> 0,
               activo |-> FALSE, resultado |-> "ninguno"]

\* A request of the empleado controller: id is req.params.id or, for
\* createEmpleado, the id of the staff row it committed (0 while none); bajas are the staff ids whose DELETE
\* was answered 200 and that no update has switched on again since.
EmpLibre == [pc |-> "libre", op |-> "ninguna", id |-> 0, activo |-> FALSE,
             body |-> [usuario_id |-> 0, especialidades |-> <<>>,
                       servicios |-> <<>>, horarios |-> <<>>],
             status |-> 0, bajas |-> {}]

\* No permission middleware has run yet.
SinPermiso == [mw |-> "ninguno", usuario |-> 0, id |-> 0, pasa |-> FALSE,
               status |-> 0]

\* The addresses requests come from (req.ip).
Ips == {1, 2}

\* The limiter's Map is empty, the clock is at 0 and no request has come.
SinPeticiones ==
  [requests |-> [i \in {} |-> <<>>], now |-> 0,
   pasadas |-> [i \in Ips |-> <<>>],
   ultimo |-> [ip |-> 0, status |-> 0, pasa |-> FALSE]]

\* The calendar service: the google_event_id column of citas (0 is NULL) and
\* the last call with what it came to for its caller.
SinCalendario == [google_event_id |-> [id \in CitaIds |-> 0],
                  op |-> "ninguna", resultado |-> "ninguno"]

ReqLibre == [pc |-> "libre", usuario |-> 0,
             body |-> [empleadoId |-> 0, servicios |-> <<>>, fecha |-> 0,
                       horario |-> 0, total |-> 0],
             clienteId |-> 0, citaId |-> 0, idx |-> 0, notif |-> "no",
             status |-> 0, conc |-> {}, turno |-> <<0, 0, 0>>, lineas |-> 0]

Init ==
  /\ citas = {}
  /\ citaAutoInc = 1
  /\ pagos = {}
  /\ cita_servicio = {}
  /\ clientes = {[id |-> 1, usuario_id |-> 1]}
  /\ clienteAutoInc = 2
  /\ reqs = [r \in Reqs |-> ReqLibre]
  /\ res = SinRespuesta
  /\ http = HttpLibre
  /\ fcm_token = [u \in DOMAIN TablaUsuarios |-> IF u = 1 THEN "t1" ELSE "NULL"]
  /\ envios = SinEnvios
  /\ calendario = SinCalendario
  /\ filas_pago = <<>>
  /\ usuarios = TablaUsuarios
  /\ empleados = TablaEmpleados
  /\ logins = [p \in Procs |-> LoginLibre]
  /\ emp = EmpLibre
  /\ perfiles = {}
  /\ permiso = SinPermiso
  /\ limiter = SinPeticiones

\* What is left of a request once its handler has returned: the response
\* status, the id of the cita it inserted (0 if none), the number of line
\* items it inserted, the outcome of the notification call, the slot it
\* asked for and the requests that were in flight when it arrived.
Terminado(req, status, notif) ==
  [ReqLibre EXCEPT !.pc = "fin", !.status = status, !.notif = notif,
                   !.citaId = req.citaId, !.conc = req.conc,
                   !.turno = req.turno, !.lineas = req.lineas]

\* The request ends in next(new ErrorResponse(..., status)), answered by the
\* error handler.
Termina(r, status) ==
  reqs' = [reqs EXCEPT ![r] =
             Terminado(reqs[r], errorHandler(ErrorResponse(status)), "no")]

EnVuelo == {r \in Reqs : reqs[r].pc \notin {"libre", "fin"}}

\* SELECT id FROM clientes WHERE usuario_id = ? (first row)
ClienteDe(u) ==
  LET filas == {c \in clientes : c.usuario_id = u}
  IN IF filas = {} THEN 0
     ELSE (CHOOSE c \in filas : \A d \in filas : c.id <= d.id).id

\* In every step below, falla says whether the step's query throws.

\* procesarReservacion up to its first await: field validation, then the
\* lookup of the caller's clientes row (req.usuario carries no cliente_id).
procesarReservacion(r, u, body, falla) ==
  /\ UNCHANGED otros
  /\ reqs[r].pc = "libre"
  /\ IF r = 1 THEN TRUE ELSE reqs[r - 1].pc # "libre"
  /\ res' = SinRespuesta
  /\ UNCHANGED tablas
  /\ LET nuevo == [ReqLibre EXCEPT !.usuario = u, !.body = body, !.conc = EnVuelo,
                                   !.turno = <<body.empleadoId, body.fecha, body.horario>>]
     IN reqs' = [reqs EXCEPT ![r] =
          IF body.total = 0
          THEN Terminado(nuevo, errorHandler(ErrorResponse(400)), "no")
          ELSE IF falla
          THEN Terminado(nuevo, errorHandler(ErrorResponse(500)), "no")
          ELSE [nuevo EXCEPT !.clienteId = ClienteDe(u),
                             !.pc = IF ClienteDe(u) = 0 THEN "crearCliente"
                                    ELSE "crearCita"]]

\* INSERT INTO clientes (usuario_id, ...) for a caller without a row.
crearCliente(r, falla) ==
  /\ UNCHANGED otros
  /\ reqs[r].pc = "crearCliente"
  /\ res' = SinRespuesta
  /\ IF falla
     THEN /\ Termina(r, 500)
          /\ UNCHANGED tablas
     ELSE /\ clientes' = clientes \cup {[id |-> clienteAutoInc, usuario_id |-> reqs[r].usuario]}
          /\ clienteAutoInc' = clienteAutoInc + 1
          /\ reqs' = [reqs EXCEPT ![r].clienteId = clienteAutoInc, ![r].pc = "crearCita"]
          /\ UNCHANGED <<citas, citaAutoInc, pagos, cita_servicio>>

\* The row INSERT INTO citas writes: estado_id 1, end on the same fecha.
FilaCita(id, clienteId, body) ==
  [id |-> id, cliente_id |-> clienteId, empleado_id |-> body.empleadoId,
   fecha |-> body.fecha, inicio |-> body.horario,
   fin |-> HoraFin(body.horario, SumaDuracion(body.servicios)),
   estado |-> "pendiente"]

insertarCita(r, falla) ==
  /\ UNCHANGED otros
  /\ reqs[r].pc = "crearCita"
  /\ res' = SinRespuesta
  /\ IF falla
     THEN /\ Termina(r, 500)
          /\ UNCHANGED tablas
     ELSE /\ citas' = citas \cup {FilaCita(citaAutoInc, reqs[r].clienteId, reqs[r].body)}
          /\ citaAutoInc' = citaAutoInc + 1
          /\ reqs' = [reqs EXCEPT ![r].citaId = citaAutoInc, ![r].pc = "crearPago"]
          /\ UNCHANGED <<pagos, cita_servicio, clientes, clienteAutoInc>>

\* INSERT INTO pagos (cita_id, monto_total, 1, 1); the line-item loop that
\* follows has no round when req.body.servicios is empty.
insertarPago(r, falla) ==
  /\ UNCHANGED otros
  /\ reqs[r].pc = "crearPago"
  /\ res' = SinRespuesta
  /\ IF falla
     THEN /\ Termina(r, 500)
          /\ UNCHANGED tablas
     ELSE /\ pagos' = pagos \cup {[cita_id |-> reqs[r].citaId,
                                   monto_total |-> reqs[r].body.total]}
          /\ reqs' = [reqs EXCEPT ![r].idx = 1,
                                   ![r].pc = IF reqs[r].body.servicios = <<>>
                                             THEN "notificar" ELSE "detalles"]
          /\ UNCHANGED <<citas, citaAutoInc, cita_servicio, clientes, clienteAutoInc>>

\* One round of the line-item loop: price lookup, skip when the service is
\* not in the catalog, otherwise INSERT INTO cita_servicio.
insertarDetalle(r, falla) ==
  /\ UNCHANGED otros
  /\ reqs[r].pc = "detalles"
  /\ res' = SinRespuesta
  /\ LET lista == reqs[r].body.servicios
         i == reqs[r].idx
         sig == IF i = Len(lista) THEN "notificar" ELSE "detalles"
         conocido == lista[i].id \in DOMAIN servicios
     IN IF falla
        THEN /\ Termina(r, 500)
             /\ UNCHANGED tablas
        ELSE /\ reqs' = [reqs EXCEPT ![r].idx = i + 1, ![r].pc = sig,
                                      ![r].lineas = IF conocido THEN @ + 1 ELSE @]
             /\ cita_servicio' =
                  IF conocido
                  THEN cita_servicio \cup
                         {[cita_id |-> reqs[r].citaId, linea |-> i,
                           servicio_id |-> lista[i].id,
                           precio_aplicado |-> servicios[lista[i].id].precio]}
                  ELSE cita_servicio
             /\ UNCHANGED <<citas, citaAutoInc, pagos, clientes, clienteAutoInc>>

\* enviarNotificaciones without its inner try/catch: a notification error
\* reaches the handler's outer catch and the request is answered 500.
enviarNotificacionesSinCatch(r, falla) ==
  /\ UNCHANGED otros
  /\ reqs[r].pc = "notificar"
  /\ res' = SinRespuesta
  /\ reqs' = [reqs EXCEPT ![r] =
       IF falla THEN Terminado(reqs[r], 500, "fallo") ELSE Terminado(reqs[r], 200, "ok")]
  /\ UNCHANGED tablas

\* try { await enviarNotificacionesConfirmacion } catch { log }, then 200.
enviarNotificaciones(r, falla) ==
  /\ UNCHANGED otros
  /\ reqs[r].pc = "notificar"
  /\ res' = SinRespuesta
  /\ reqs' = [reqs EXCEPT ![r] = Terminado(reqs[r], 200, IF falla THEN "fallo" ELSE "ok")]
  /\ UNCHANGED tablas

\* ----------------------------------------- GET /reservacion/empleados
\* FROM empleados e JOIN usuarios u JOIN empleado_servicio es
\* WHERE e.activo = 1 AND u.activo = 1 AND es.servicio_id IN (...) GROUP BY e.id
EmpleadosConServicioEn(serviciosArray) ==
  {e \in DOMAIN empleados :
     /\ empleados[e].activo
     /\ usuarios[empleados[e].usuario_id].activo
     /\ \E i \in 1..Len(serviciosArray) : serviciosArray[i] \in empleado_servicio[e]}

getEmpleadosDisponibles(q, falla) ==
  /\ UNCHANGED otros
  /\ res' = IF q = <<>> THEN RespuestaError("getEmpleadosDisponibles", 400)
            ELSE IF falla THEN RespuestaError("getEmpleadosDisponibles", 500)
            ELSE [SinRespuesta EXCEPT !.handler = "getEmpleadosDisponibles",
                                      !.status = 200, !.servicios = q,
                                      !.empleados = EmpleadosConServicioEn(q)]
  /\ UNCHANGED <<tablas, reqs>>

\* ------------------------------------------ GET /reservacion/horarios
getHorariosDisponibles(q) ==
  /\ UNCHANGED otros
  /\ res' = IF q.empleadoId = 0 \/ q.fecha = SinFecha \/ q.servicios = <<>>
            THEN RespuestaError("getHorariosDisponibles", 400)
            ELSE [handler |-> "getHorariosDisponibles", status |-> 200,
                  empleadoId |-> q.empleadoId, fecha |-> q.fecha,
                  servicios |-> q.servicios,
                  horarios |-> HorariosLibres(q.empleadoId, q.fecha),
                  empleados |-> {}]
  /\ UNCHANGED <<tablas, reqs>>

\* --------------------------------------- PUT /reservacion/cancelar/:id
\* A hard delete in place of the status update: DELETE FROM citas WHERE id = ?
BorrarFila(id) == {c \in citas : c.id # id}

\* UPDATE citas SET estado_id = (... 'Cancelada') WHERE id = ?
MarcarCancelada(id) ==
  {IF c.id = id THEN [c EXCEPT !.estado = "cancelada"] ELSE c : c \in citas}

cancelarCita(u, id, falla) ==
  /\ UNCHANGED otros
  /\ UNCHANGED <<citaAutoInc, pagos, cita_servicio, clientes, clienteAutoInc, reqs>>
  /\ LET clienteId == ClienteDe(u)
     IN IF falla
        THEN /\ res' = RespuestaError("cancelarCita", 500)
             /\ UNCHANGED citas
        ELSE IF clienteId = 0
        THEN /\ res' = RespuestaError("cancelarCita", 400)
             /\ UNCHANGED citas
        ELSE IF ~ \E c \in citas : c.id = id /\ c.cliente_id = clienteId
        THEN /\ res' = RespuestaError("cancelarCita", 404)
             /\ UNCHANGED citas
        ELSE /\ citas' = MarcarCancelada(id)
             /\ res' = Respuesta("cancelarCita", 200)

\* ------------------------------------------------- models/Cita (staff)
Terminales == {"completada", "cancelada"}

\* pending -> confirmed -> in_progress -> completed; non-terminal -> cancelled
Transiciones ==
  { <<"pendiente", "confirmada">>, <<"confirmada", "en_proceso">>,
    <<"en_proceso", "completada">> }
  \cup { <<e, "cancelada">> : e \in Estados \ Terminales }

Existe(id) == \E c \in citas : c.id = id

FilaDe(id) == CHOOSE c \in citas : c.id = id

\* Cita.cambiarEstado(id, estado): the outcome and the table afterwards.
CitaCambiarEstado(id, estado) ==
  IF ~ Existe(id) THEN [error |-> "no encontrada", citas |-> citas]
  ELSE IF <<FilaDe(id).estado, estado>> \notin Transiciones
  THEN [error |-> "transicion invalida", citas |-> citas]
  ELSE [error |-> "",
        citas |-> {IF c.id = id THEN [c EXCEPT !.estado = estado] ELSE c : c \in citas}]

\* Cita.eliminar(id): the appointment is kept and moved to cancelled.
CitaEliminar(id) ==
  IF ~ Existe(id) THEN [error |-> "", eliminado |-> FALSE, citas |-> citas]
  ELSE IF FilaDe(id).estado \in Terminales
  THEN [error |-> "transicion invalida", eliminado |-> FALSE, citas |-> citas]
  ELSE [error |-> "", eliminado |-> TRUE, citas |-> MarcarCancelada(id)]

Solapan(a, b) ==
  /\ a.empleado_id = b.empleado_id
  /\ a.fecha * 1440 + a.inicio < b.fecha * 1440 + b.fin
  /\ b.fecha * 1440 + b.inicio < a.fecha * 1440 + a.fin

\* Cita.actualizar(id, {hora_inicio}): reschedule, re-validating the slot.
CitaActualizar(id, horario) ==
  IF ~ Existe(id) THEN [error |-> "no encontrada", citas |-> citas]
  ELSE LET vieja == FilaDe(id)
           nueva == [vieja EXCEPT !.inicio = horario,
                                  !.fin = HoraFin(horario, vieja.fin - vieja.inicio)]
       IN IF vieja.estado \in Terminales
             \/ \E c \in citas : c.id # id /\ c.estado # "cancelada" /\ Solapan(c, nueva)
          THEN [error |-> "horario no disponible", citas |-> citas]
          ELSE [error |-> "", citas |-> (citas \ {vieja}) \cup {nueva}]

\* ------------------------------------------------------ citaController
\* PATCH /citas/:id/estado
cambiarEstadoCita(id, estado) ==
  /\ UNCHANGED otros
  /\ LET r == CitaCambiarEstado(id, estado)
     IN /\ citas' = r.citas
        /\ res' = IF r.error = "" THEN Respuesta("cambiarEstadoCita", 200)
                  ELSE IF r.error = "no encontrada"
                  THEN RespuestaError("cambiarEstadoCita", 404)
                  ELSE RespuestaError("cambiarEstadoCita", 400)
  /\ UNCHANGED <<citaAutoInc, pagos, cita_servicio, clientes, clienteAutoInc, reqs>>

\* DELETE /citas/:id
deleteCita(id) ==
  /\ UNCHANGED otros
  /\ LET r == CitaEliminar(id)
     IN /\ citas' = r.citas
        /\ res' = IF r.error # "" THEN RespuestaError("deleteCita", 500)
                  ELSE IF ~ r.eliminado THEN RespuestaError("deleteCita", 404)
                  ELSE Respuesta("deleteCita", 200)
  /\ UNCHANGED <<citaAutoInc, pagos, cita_servicio, clientes, clienteAutoInc, reqs>>

\* PUT /citas/:id
updateCita(id, horario) ==
  /\ UNCHANGED otros
  /\ LET r == CitaActualizar(id, horario)
     IN /\ citas' = r.citas
        /\ res' = IF r.error = "" THEN Respuesta("updateCita", 200)
                  ELSE IF r.error = "no encontrada"
                  THEN RespuestaError("updateCita", 404)
                  ELSE RespuestaError("updateCita", 400)
  /\ UNCHANGED <<citaAutoInc, pagos, cita_servicio, clientes, clienteAutoInc, reqs>>

\* ------------------------------------------------------ middleware/auth
\* A JavaScript value with its type, compared as === and Array.includes do.
Str(s) == [tipo |-> "string", v |-> s]

Num(n) == [tipo |-> "number", v |-> n]

IgualEstricto(a, b) == a.tipo = b.tipo /\ a.v = b.v

includes(arr, x) == \E i \in 1..Len(arr) : IgualEstricto(arr[i], x)

\* The Authorization header of a request: absent, a token jwt.verify rejects
\* as malformed or as expired, or a token jwt.verify accepts.
Cabeceras == {"ausente", "invalido", "expirado", "valido"}

Rutas == {"DELETE /citas/:id", "PATCH /citas/:id/estado", "POST /auth/logout",
          "GET /auth/stats", "GET /empleados"}

\* The arguments of the route's authorize(...); <<>> when it has none.  The
\* role name written "dueno" here has an n with tilde in the source.
RolesDe(ruta) ==
  IF ruta \in {"DELETE /citas/:id", "GET /auth/stats", "GET /empleados"}
  THEN <<Str("administrador"), Str("dueno")>>
  ELSE IF ruta = "PATCH /citas/:id/estado"
  THEN <<Str("administrador"), Str("dueno"), Str("empleado")>>
  ELSE <<>>

\* The layers after router.use(protect) that match a well-formed request of
\* the route, down to the application's catch-all 404.
Pila(ruta) ==
  IF RolesDe(ruta) = <<>> THEN <<"handler", "noEncontrada">>
  ELSE <<"authorize", "handler", "noEncontrada">>

\* res.status(status).json(...) on a response not sent yet.
Enviar(h, status) == [h EXCEPT !.enviado = status]

\* A call of next() by the layer capa, or by the function it handed its next
\* to: counted, and marked when a response has been sent before it.
Siguiente(h, capa) ==
  [h EXCEPT !.llamadas[capa] = @ + 1, !.tardio = @ \/ h.enviado # 0]

\* What a handler answers: obtenerEstadisticas answers 403 unless
\* req.usuario.rol_id is 3, every other handler 200.
RespuestaDe(h) ==
  IF h.ruta = "GET /auth/stats" /\ usuarios[h.req_usuario].rol_id # 3
  THEN 403 ELSE 200

RECURSIVE next(_), verificarRol(_, _), authorize(_)
\* next(): the following layer of the stack runs up to its first await.
next(h) ==
  IF h.idx >= Len(Pila(h.ruta)) THEN h
  ELSE LET capa == Pila(h.ruta)[h.idx + 1]
           h1 == [h EXCEPT !.idx = @ + 1]
       IN CASE capa = "authorize" -> authorize(h1)
            [] capa = "handler" -> [h1 EXCEPT !.ejecuciones = @ + 1, !.io = @ + 1]
            [] capa = "noEncontrada" -> IF h1.enviado = 0 THEN Enviar(h1, 404) ELSE h1

\* verificarRol(roles)(req, res, next); lanza: res.json threw because a
\* response had been sent already.
verificarRol(h, roles) ==
  IF h.req_usuario = 0
  THEN (IF h.enviado = 0 THEN [h |-> Enviar(h, 401), lanza |-> FALSE]
        ELSE [h |-> h, lanza |-> TRUE])
  ELSE IF ~ includes(roles, Num(usuarios[h.req_usuario].rol_id))
  THEN (IF h.enviado = 0 THEN [h |-> Enviar(h, 403), lanza |-> FALSE]
        ELSE [h |-> h, lanza |-> TRUE])
  ELSE [h |-> next(Siguiente(h, "authorize")), lanza |-> FALSE]

\* authorize(...roles) up to its await; when verificarRol throws, the catch
\* answers 403, or throws in its turn and the middleware ends there.
authorize(h) ==
  LET r == verificarRol(h, RolesDe(h.ruta))
  IN IF r.lanza
     THEN (IF r.h.enviado = 0 THEN Enviar(r.h, 403) ELSE r.h)
     ELSE [r.h EXCEPT !.micro = Append(@, "A")]

\* protect, entered with the request: verificarToken up to its first await.
protect(cab, u, ruta) ==
  /\ http.pc = "libre"
  /\ (cab = "valido") <=> (u # 0)
  /\ UNCHANGED <<reserva, fcm_token, envios, anexos>>
  /\ LET h == [HttpLibre EXCEPT !.cabecera = cab, !.decoded = u, !.ruta = ruta]
     IN http' = IF cab = "valido" THEN [h EXCEPT !.pc = "consulta"]
                ELSE [Enviar(h, 401) EXCEPT !.pc = "enCurso", !.micro = <<"P">>]

\* verificarToken once SELECT ... FROM usuarios WHERE id = ? AND activo = 1
\* has returned (or thrown, when falla).
verificarToken(falla) ==
  /\ http.pc = "consulta"
  /\ UNCHANGED <<reserva, fcm_token, envios, anexos>>
  /\ LET h == [http EXCEPT !.pc = "enCurso"]
     IN http' =
          IF falla THEN [Enviar(h, 500) EXCEPT !.micro = <<"P">>]
          ELSE IF ~ usuarios[h.decoded].activo
          THEN [Enviar(h, 401) EXCEPT !.micro = <<"P">>]
          ELSE [next(Siguiente([h EXCEPT !.req_usuario = h.decoded], "protect"))
                  EXCEPT !.micro = Append(@, "P")]

\* authorize after await verificarRol(roles)(req, res, next): next().
continuaAuthorize ==
  /\ http.pc = "enCurso" /\ http.micro # <<>> /\ Head(http.micro) = "A"
  /\ UNCHANGED <<reserva, fcm_token, envios, anexos>>
  /\ http' = next(Siguiente([http EXCEPT !.micro = Tail(@)], "authorize"))

\* protect after await verificarToken(req, res, next): next().
continuaProtect ==
  /\ http.pc = "enCurso" /\ http.micro # <<>> /\ Head(http.micro) = "P"
  /\ UNCHANGED <<reserva, fcm_token, envios, anexos>>
  /\ http' = next(Siguiente([http EXCEPT !.micro = Tail(@)], "protect"))

\* A started handler answers 200; when a response has been sent already its
\* res.json throws and the error ends in the error handler, which cannot
\* answer either.
responderHandler ==
  /\ http.pc = "enCurso" /\ http.micro = <<>> /\ http.io > 0
  /\ UNCHANGED <<reserva, fcm_token, envios, anexos>>
  /\ http' = [(IF http.enviado = 0 THEN Enviar(http, RespuestaDe(http)) ELSE http)
                EXCEPT !.io = @ - 1]

\* ------------------------------------------- NotificacionPushService
\* The row of citaSql: the cita joined to its cliente, its empleado and its
\* line items (INNER JOINs, so a cita without line item gives no row).
CitaConDatos(citaId) ==
  \E c \in citas :
    /\ c.id = citaId
    /\ \E k \in clientes : k.id = c.cliente_id
    /\ c.empleado_id \in DOMAIN empleados
    /\ \E d \in cita_servicio : d.cita_id = citaId

\* SELECT np.token_dispositivo FROM notificaciones_push np JOIN clientes cl
\* ON np.usuario_id = cl.usuario_id WHERE cl.id = ? AND np.activo = 1
TokensCliente(citaId) ==
  {np.token_dispositivo : np \in
     {x \in notificaciones_push :
        /\ x.activo
        /\ \E k \in clientes : k.id = FilaDe(citaId).cliente_id
                               /\ k.usuario_id = x.usuario_id}}

\* ... JOIN empleados e ON np.usuario_id = e.usuario_id WHERE e.id = ? AND
\* np.activo = 1
TokensEmpleado(citaId) ==
  {np.token_dispositivo : np \in
     {x \in notificaciones_push :
        x.activo /\ x.usuario_id = empleados[FilaDe(citaId).empleado_id].usuario_id}}

\* UPDATE usuarios SET fcm_token = NULL WHERE fcm_token = ?, per token.
limpiarTokensInvalidos(tokens) ==
  [u \in DOMAIN fcm_token |-> IF fcm_token[u] \in tokens THEN "NULL" ELSE fcm_token[u]]

\* sendMulticast to fcmTokens, of which the tokens in F fail.
Envio(tipo, fcmTokens, F) ==
  [n |-> envios.n + 1, tipo |-> tipo, tokens |-> fcmTokens,
   entregados |-> fcmTokens \ F, fallidos |-> envios.fallidos \cup F]

\* In the three dispatches, a cita that gives no row, an empty token list or
\* a sendMulticast that throws (falla) end the call with nothing done.
enviarNotificacionConfirmacion(citaId, F, falla) ==
  /\ envios.n < MaxEnvios
  /\ CitaConDatos(citaId)
  /\ F \subseteq TokensCliente(citaId)
  /\ UNCHANGED <<reserva, http, anexos>>
  /\ IF falla \/ TokensCliente(citaId) = {}
     THEN UNCHANGED <<fcm_token, envios>>
     ELSE /\ envios' = Envio("confirmacion", TokensCliente(citaId), F)
          /\ fcm_token' = limpiarTokensInvalidos(F)

enviarNotificacionRecordatorio(citaId, F, falla) ==
  /\ envios.n < MaxEnvios
  /\ CitaConDatos(citaId)
  /\ F \subseteq TokensCliente(citaId)
  /\ UNCHANGED <<reserva, http, anexos>>
  /\ IF falla \/ TokensCliente(citaId) = {}
     THEN UNCHANGED <<fcm_token, envios>>
     ELSE /\ envios' = Envio("recordatorio", TokensCliente(citaId), F)
          /\ UNCHANGED fcm_token

enviarNotificacionEmpleado(citaId, F, falla) ==
  /\ envios.n < MaxEnvios
  /\ CitaConDatos(citaId)
  /\ F \subseteq TokensEmpleado(citaId)
  /\ UNCHANGED <<reserva, http, anexos>>
  /\ IF falla \/ TokensEmpleado(citaId) = {}
     THEN UNCHANGED <<fcm_token, envios>>
     ELSE /\ envios' = Envio("empleado", TokensEmpleado(citaId), F)
          /\ UNCHANGED fcm_token

\* ------------------------------------------------ GoogleCalendarService
\* Where a call of the calendar service can fail: nowhere, in a query on
\* citas, in the Google Calendar API call, or in the UPDATE that stores or
\* clears google_event_id.
Fallas == {"no", "consulta", "api", "guardar"}

\* What crearEventoCita comes to: its try block returns null without
\* credentials, throws on a failing query, a missing row or a failing
\* events.insert, and otherwise stores the event id (guardarEventoId logs its
\* own failure); its catch block logs and returns null.
CrearEvento(citaId, credenciales, falla) ==
  IF ~ credenciales \/ falla \in {"consulta", "api"} \/ ~ CitaConDatos(citaId)
    THEN [resultado |-> "null", google_event_id |-> calendario.google_event_id]
    ELSE [resultado |-> "devuelve",
          google_event_id |->
            IF falla = "guardar" THEN calendario.google_event_id
            ELSE [calendario.google_event_id EXCEPT ![citaId] = 1]]

Llamada(op, r) ==
  [google_event_id |-> r.google_event_id, op |-> op, resultado |-> r.resultado]

crearEventoCita(citaId, credenciales, falla) ==
  /\ calendario' = Llamada("crear", CrearEvento(citaId, credenciales, falla))
  /\ UNCHANGED <<reserva, http, fcm_token, envios, filas_pago, cuentas, permiso,
               limiter>>

\* The catch block of actualizarEventoCita logs and rethrows; without a
\* stored event id the call is handed to crearEventoCita.
actualizarEventoCita(citaId, credenciales, falla) ==
  /\ calendario' =
       IF falla = "consulta"
         THEN [calendario EXCEPT !.op = "actualizar", !.resultado = "lanza"]
       ELSE IF ~ Existe(citaId) \/ calendario.google_event_id[citaId] = 0
         THEN Llamada("actualizar", CrearEvento(citaId, credenciales, falla))
       ELSE IF ~ CitaConDatos(citaId) \/ falla = "api"
         THEN [calendario EXCEPT !.op = "actualizar", !.resultado = "lanza"]
       ELSE [calendario EXCEPT !.op = "actualizar", !.resultado = "devuelve"]
  /\ UNCHANGED <<reserva, http, fcm_token, envios, filas_pago, cuentas, permiso,
               limiter>>

\* The catch block of cancelarEventoCita logs and rethrows; limpiarEventoId
\* logs its own failure.
cancelarEventoCita(citaId, falla) ==
  /\ calendario' =
       IF falla = "consulta"
         THEN [calendario EXCEPT !.op = "cancelar", !.resultado = "lanza"]
       ELSE IF ~ Existe(citaId) \/ calendario.google_event_id[citaId] = 0
         THEN [calendario EXCEPT !.op = "cancelar", !.resultado = "devuelve"]
       ELSE IF falla = "api"
         THEN [calendario EXCEPT !.op = "cancelar", !.resultado = "lanza"]
       ELSE [calendario EXCEPT !.op = "cancelar", !.resultado = "devuelve",
                               !.google_event_id[citaId] =
                                  IF falla = "guardar" THEN @ ELSE 0]
  /\ UNCHANGED <<reserva, http, fcm_token, envios, filas_pago, cuentas, permiso,
               limiter>>

\* ----------------------------------------------------------- models/Pago
\* At most MaxPagos rows are written through the Pago model.
MaxPagos == 2

\* monto_total values of a payment.
Montos == {5, 10}

\* estado_pago_id, written as the nombre of its estados_pago row.
EstadosPago == {"Pendiente", "Completado", "Parcial"}

\* A field that datos does not carry (datos[campo] === undefined).
Indefinido == "undefined"

\* A datos without monto_total.
SinMonto == -1

\* The datos argument of Pago.actualizar, reduced to the two fields that the
\* paid total reads.
DatosPago ==
  [monto_total : Montos \cup {SinMonto},
   estado_pago_id : EstadosPago \cup {Indefinido}]

\* INSERT INTO pagos (...) VALUES (...): the row is stored as given.
PagoCrear(pago, falla) ==
  /\ Len(filas_pago) < MaxPagos
  /\ filas_pago' = IF falla THEN filas_pago ELSE Append(filas_pago, pago)
  /\ UNCHANGED <<reserva, http, fcm_token, envios, calendario, cuentas, permiso,
               limiter>>

\* UPDATE pagos SET <the fields datos carries> WHERE id = ?; throws without a
\* field to update and when no row has the id.
PagoActualizar(id, datos, falla) ==
  /\ filas_pago' =
       IF \/ datos.monto_total = SinMonto /\ datos.estado_pago_id = Indefinido
          \/ falla
          \/ id \notin DOMAIN filas_pago
       THEN filas_pago
       ELSE [filas_pago EXCEPT
               ![id].monto_total =
                  IF datos.monto_total = SinMonto THEN @ ELSE datos.monto_total,
               ![id].estado_pago_id =
                  IF datos.estado_pago_id = Indefinido THEN @
                  ELSE datos.estado_pago_id]
  /\ UNCHANGED <<reserva, http, fcm_token, envios, calendario, cuentas, permiso,
               limiter>>

RECURSIVE SumaPagada(_, _)
SumaPagada(cita_id, filas) ==
  IF filas = <<>> THEN 0
  ELSE (IF /\ Head(filas).cita_id = cita_id
           /\ Head(filas).estado_pago_id \in {"Completado", "Parcial"}
        THEN Head(filas).monto_total ELSE 0) + SumaPagada(cita_id, Tail(filas))

\* SELECT COALESCE(SUM(monto_total), 0) FROM pagos WHERE cita_id = ? AND
\* estado_pago_id IN (ids of 'Completado', 'Parcial').  The row that the
\* booking handler inserts is pending and adds nothing.
obtenerTotalPagadoPorCita(cita_id) == SumaPagada(cita_id, filas_pago)

RECURSIVE SumaPrecios(_)
SumaPrecios(lineas) ==
  IF lineas = {} THEN 0
  ELSE LET d == CHOOSE x \in lineas : TRUE
       IN d.precio_aplicado + SumaPrecios(lineas \ {d})

\* The total of a cita computed from its line items (descuento is 0.00).
TotalCita(cita_id) ==
  SumaPrecios({d \in cita_servicio : d.cita_id = cita_id})

\* ------------------------------------------------------------ AuthService
\* What the auth service and the empleado controller leave alone.
ajenos == <<citas, citaAutoInc, pagos, cita_servicio, reqs, http, fcm_token,
            envios, calendario, filas_pago, permiso, limiter>>

\* Firebase uids of the id tokens: the one of user 3 (the account of staff 1)
\* and one that no usuarios row carries yet.
Uids == {3, 7}

\* rows[0] of SELECT * FROM usuarios WHERE firebase_uid = ?; 0 when no row.
UsuarioPorUid(uid) ==
  LET filas == {u \in DOMAIN usuarios : usuarios[u].firebase_uid = uid}
  IN IF filas = {} THEN 0 ELSE CHOOSE u \in filas : \A v \in filas : u <= v

FinLogin(l, resultado) == [l EXCEPT !.pc = "fin", !.resultado = resultado]

\* loginGoogle up to its first query: admin.auth().verifyIdToken(idToken).
loginGoogle(p, uid, falla) ==
  /\ logins[p].pc \in {"libre", "fin"}
  /\ logins' = [logins EXCEPT ![p] =
       LET l == [LoginLibre EXCEPT !.op = "loginGoogle", !.uid = uid]
       IN IF falla THEN FinLogin(l, "lanza") ELSE [l EXCEPT !.pc = "buscar"]]
  /\ UNCHANGED <<ajenos, res, clientes, clienteAutoInc, usuarios, empleados,
                 emp, perfiles>>

\* The SELECT of buscarUsuarioPorFirebaseUid has returned: an unknown uid goes
\* on to crearUsuarioDesdeGoogle, a known one to actualizarUltimoAcceso.
buscarUsuarioPorFirebaseUid(p, falla) ==
  /\ logins[p].pc = "buscar"
  /\ logins' = [logins EXCEPT ![p] =
       LET u == UsuarioPorUid(logins[p].uid)
       IN IF falla THEN FinLogin(@, "lanza")
          ELSE IF u = 0 THEN [@ EXCEPT !.pc = "crear"]
          ELSE [@ EXCEPT !.pc = "acceso", !.usuario = u,
                         !.activo = usuarios[u].activo]]
  /\ UNCHANGED <<ajenos, res, clientes, clienteAutoInc, usuarios, empleados,
                 emp, perfiles>>

\* Where crearUsuarioDesdeGoogle can fail: nowhere, in an INSERT of its
\* transaction, or in the SELECT that follows the commit.
FallasCrear == {"no", "insert", "select"}

\* crearUsuarioDesdeGoogle: INSERT INTO usuarios (..., rol_id 3, activo 1) and
\* INSERT INTO clientes in one transaction, then the rest of loginGoogle,
\* which writes nothing.
crearUsuarioDesdeGoogle(p, falla) ==
  /\ logins[p].pc = "crear"
  /\ LET usuarioId == Cardinality(DOMAIN usuarios) + 1
     IN IF falla = "insert"
        THEN /\ logins' = [logins EXCEPT ![p] = FinLogin(@, "lanza")]
             /\ UNCHANGED <<usuarios, clientes, clienteAutoInc>>
        ELSE /\ usuarios' = usuarios @@
                   (usuarioId :> [rol_id |-> 3, activo |-> TRUE,
                                  firebase_uid |-> logins[p].uid])
             /\ clientes' = clientes \cup
                   {[id |-> clienteAutoInc, usuario_id |-> usuarioId]}
             /\ clienteAutoInc' = clienteAutoInc + 1
             /\ logins' = [logins EXCEPT ![p] =
                  IF falla = "select" THEN FinLogin(@, "lanza")
                  ELSE FinLogin([@ EXCEPT !.usuario = usuarioId,
                                          !.activo = TRUE], "ok")]
  /\ UNCHANGED <<ajenos, res, empleados, emp, perfiles>>

\* actualizarUltimoAcceso, then if (!usuario.activo) throw on the row that
\* buscarUsuarioPorFirebaseUid read, then the rest of loginGoogle.
actualizarUltimoAcceso(p, falla) ==
  /\ logins[p].pc = "acceso"
  /\ logins' = [logins EXCEPT ![p] =
       FinLogin(@, IF falla \/ ~ logins[p].activo THEN "lanza" ELSE "ok")]
  /\ UNCHANGED <<ajenos, res, clientes, clienteAutoInc, usuarios, empleados,
                 emp, perfiles>>

\* refrescarToken with a refresh token issued to user u: jwt.verify, then
\* SELECT * FROM usuarios WHERE id = ? AND activo = 1.
refrescarToken(p, u, falla) ==
  /\ logins[p].pc \in {"libre", "fin"}
  /\ logins' = [logins EXCEPT ![p] =
       FinLogin([LoginLibre EXCEPT !.op = "refrescarToken", !.usuario = u],
                IF falla \/ u \notin DOMAIN usuarios \/ ~ usuarios[u].activo
                THEN "lanza" ELSE "ok")]
  /\ UNCHANGED <<ajenos, res, clientes, clienteAutoInc, usuarios, empleados,
                 emp, perfiles>>

\* ----------------------------------------------------- empleadoController
FinEmp(e, status) == [e EXCEPT !.pc = "fin", !.status = status]

\* deleteEmpleado and updateEmpleado up to sequelize.transaction():
\* Empleado.findByPk(req.params.id).  activo is req.body.activo of
\* updateEmpleado.
buscarEmpleado(op, id, activo, falla) ==
  /\ emp.pc \in {"libre", "fin"}
  /\ emp' = LET e == [EmpLibre EXCEPT !.op = op, !.id = id, !.activo = activo,
                                      !.bajas = emp.bajas]
            IN IF falla THEN FinEmp(e, 500)
               ELSE IF id \notin DOMAIN empleados
               THEN FinEmp(e, errorHandler(ErrorResponse(404)))
               ELSE [e EXCEPT !.pc = "tx"]
  /\ UNCHANGED <<ajenos, res, clientes, clienteAutoInc, usuarios, empleados,
                 logins, perfiles>>

\* The rows deleteEmpleado's transaction commits: the empleado and, when it
\* exists, its usuario are switched off.
SoloEmpleado(id) ==
  [usuarios |-> usuarios,
   empleados |-> [empleados EXCEPT ![id].activo = FALSE]]

Desactivar(id) ==
  [usuarios |-> IF empleados[id].usuario_id \in DOMAIN usuarios
                THEN [usuarios EXCEPT ![empleados[id].usuario_id].activo = FALSE]
                ELSE usuarios,
   empleados |-> [empleados EXCEPT ![id].activo = FALSE]]

\* deleteEmpleado from sequelize.transaction() on: both updates and the
\* commit, answered 200; a failure rolls back and ends in the error handler.
deleteEmpleado(falla) ==
  /\ emp.pc = "tx" /\ emp.op = "deleteEmpleado"
  /\ IF falla
     THEN /\ emp' = FinEmp(emp, errorHandler(ErrorResponse(500)))
          /\ UNCHANGED <<usuarios, empleados>>
     ELSE /\ usuarios' = Desactivar(emp.id).usuarios
          /\ empleados' = Desactivar(emp.id).empleados
          /\ emp' = [FinEmp(emp, 200) EXCEPT !.bajas = @ \cup {emp.id}]
  /\ UNCHANGED <<ajenos, res, clientes, clienteAutoInc, logins, perfiles>>

\* updateEmpleado from sequelize.transaction() on: empleado.update({titulo,
\* biografia, activo}), usuario.update of the contact fields, commit.
updateEmpleado(falla) ==
  /\ emp.pc = "tx" /\ emp.op = "updateEmpleado"
  /\ IF falla
     THEN /\ emp' = FinEmp(emp, errorHandler(ErrorResponse(500)))
          /\ UNCHANGED empleados
     ELSE /\ empleados' = [empleados EXCEPT ![emp.id].activo = emp.activo]
          /\ emp' = [FinEmp(emp, 200) EXCEPT
                       !.bajas = IF emp.activo THEN @ \ {emp.id} ELSE @]
  /\ UNCHANGED <<ajenos, res, clientes, clienteAutoInc, usuarios, logins,
                 perfiles>>

\* Empleado.findAll({ where: { activo: true } })
getAllEmpleados(falla) ==
  /\ res' = IF falla THEN Respuesta("getAllEmpleados", 500)
            ELSE [Respuesta("getAllEmpleados", 200) EXCEPT
                    !.empleados = {e \in DOMAIN empleados : empleados[e].activo}]
  /\ UNCHANGED <<ajenos, clientes, clienteAutoInc, cuentas>>

\* req.body of POST /api/empleados: usuario_id 0 is absent, 9 names no row,
\* 1 a customer and 3 a staff member; the three lists are ids (<<>> absent).
BodiesEmpleado ==
  [usuario_id : {0, 1, 3, 9}, especialidades : {<<>>, <<1>>},
   servicios : {<<>>, <<1, 2>>}, horarios : {<<>>, <<1>>}]

\* createEmpleado up to sequelize.transaction().
createEmpleado(body) ==
  /\ emp.pc \in {"libre", "fin"}
  /\ emp' = LET e == [EmpLibre EXCEPT !.op = "createEmpleado", !.body = body,
                                      !.bajas = emp.bajas]
            IN IF body.usuario_id = 0
               THEN FinEmp(e, errorHandler(ErrorResponse(400)))
               ELSE [e EXCEPT !.pc = "tx"]
  /\ UNCHANGED <<ajenos, res, clientes, clienteAutoInc, usuarios, empleados,
                 logins, perfiles>>

\* The rows of the three bulkCreate calls for staff member id.
FilasPerfil(id, body) ==
  {[tabla |-> "empleado_especialidad", empleado_id |-> id,
    valor |-> body.especialidades[i]] : i \in DOMAIN body.especialidades}
  \cup {[tabla |-> "empleado_servicio", empleado_id |-> id,
         valor |-> body.servicios[i]] : i \in DOMAIN body.servicios}
  \cup {[tabla |-> "horarios_empleados", empleado_id |-> id,
         valor |-> body.horarios[i]] : i \in DOMAIN body.horarios}

\* createEmpleado's transaction: the user is looked up and must not be staff
\* already; then the role update, Cliente.destroy, Empleado.create and the
\* bulkCreate calls are committed together, or rolled back when one fails.
promoverUsuario(falla) ==
  /\ emp.pc = "tx" /\ emp.op = "createEmpleado"
  /\ LET u == emp.body.usuario_id
         id == Cardinality(DOMAIN empleados) + 1
     IN IF u \notin DOMAIN usuarios
        THEN /\ emp' = FinEmp(emp, errorHandler(ErrorResponse(404)))
             /\ UNCHANGED <<usuarios, clientes, empleados, perfiles>>
        ELSE IF \/ usuarios[u].rol_id = 2
                \/ \E e \in DOMAIN empleados : empleados[e].usuario_id = u
        THEN /\ emp' = FinEmp(emp, errorHandler(ErrorResponse(400)))
             /\ UNCHANGED <<usuarios, clientes, empleados, perfiles>>
        ELSE IF falla
        THEN /\ emp' = FinEmp(emp, errorHandler(ErrorResponse(500)))
             /\ UNCHANGED <<usuarios, clientes, empleados, perfiles>>
        ELSE /\ usuarios' = [usuarios EXCEPT ![u].rol_id = 2]
             /\ clientes' = {c \in clientes : c.usuario_id # u}
             /\ empleados' = empleados @@ (id :> [usuario_id |-> u, activo |-> TRUE])
             /\ perfiles' = perfiles \cup FilasPerfil(id, emp.body)
             /\ emp' = [emp EXCEPT !.pc = "leer", !.id = id]
  /\ UNCHANGED <<ajenos, res, clienteAutoInc, logins>>

\* After the commit: getEmpleadoCompleto(empleado.id), then 201.  When the
\* read fails the catch block calls t.rollback() on the committed
\* transaction and the request ends in the error handler.
getEmpleadoCompleto(falla) ==
  /\ emp.pc = "leer"
  /\ emp' = FinEmp(emp, IF falla THEN 500 ELSE 201)
  /\ UNCHANGED <<ajenos, res, clientes, clienteAutoInc, usuarios, empleados,
                 logins, perfiles>>

\* ------------------------------------------- middleware/auth (permissions)
\* The outcome of a permission middleware for req.usuario = usuarios[u]:
\* pasa when it called next(), else the status it answered.
Permiso(mw, u, id, pasa, status) ==
  [mw |-> mw, usuario |-> u, id |-> id, pasa |-> pasa, status |-> status]

\* esAdmin = verificarRol(3)
esAdmin(u) ==
  /\ permiso' = IF includes(<<Num(3)>>, Num(usuarios[u].rol_id))
                THEN Permiso("esAdmin", u, 0, TRUE, 0)
                ELSE Permiso("esAdmin", u, 0, FALSE, 403)
  /\ UNCHANGED <<reserva, http, fcm_token, envios, calendario, filas_pago,
                 cuentas, limiter>>

\* verificarPropiedad('clientes', 'usuario_id'): the row is read first, then
\* rol_id === 3 passes, then the owner passes.
verificarPropiedad(u, recursoId, falla) ==
  /\ permiso' =
       IF recursoId = 0 THEN Permiso("verificarPropiedad", u, recursoId, FALSE, 400)
       ELSE IF falla THEN Permiso("verificarPropiedad", u, recursoId, FALSE, 500)
       ELSE IF ~ \E k \in clientes : k.id = recursoId
       THEN Permiso("verificarPropiedad", u, recursoId, FALSE, 404)
       ELSE IF usuarios[u].rol_id = 3
       THEN Permiso("verificarPropiedad", u, recursoId, TRUE, 0)
       ELSE IF (CHOOSE k \in clientes : k.id = recursoId).usuario_id # u
       THEN Permiso("verificarPropiedad", u, recursoId, FALSE, 403)
       ELSE Permiso("verificarPropiedad", u, recursoId, TRUE, 0)
  /\ UNCHANGED <<reserva, http, fcm_token, envios, calendario, filas_pago,
                 cuentas, limiter>>

\* verificarPermisosCita: rol_id === 3 passes before any query; then the
\* cita is read, rol_id 2 passes as its staff member and rol_id 1 as its
\* customer; everybody else is answered 403.
verificarPermisosCita(u, citaId, falla) ==
  /\ permiso' =
       IF citaId = 0 THEN Permiso("verificarPermisosCita", u, citaId, FALSE, 400)
       ELSE IF usuarios[u].rol_id = 3
       THEN Permiso("verificarPermisosCita", u, citaId, TRUE, 0)
       ELSE IF falla THEN Permiso("verificarPermisosCita", u, citaId, FALSE, 500)
       ELSE IF ~ Existe(citaId)
       THEN Permiso("verificarPermisosCita", u, citaId, FALSE, 404)
       ELSE IF /\ usuarios[u].rol_id = 2
               /\ \E e \in DOMAIN empleados :
                    /\ empleados[e].usuario_id = u
                    /\ \A x \in DOMAIN empleados :
                         empleados[x].usuario_id = u => e <= x
                    /\ e = FilaDe(citaId).empleado_id
       THEN Permiso("verificarPermisosCita", u, citaId, TRUE, 0)
       ELSE IF /\ usuarios[u].rol_id = 1
               /\ ClienteDe(u) # 0
               /\ ClienteDe(u) = FilaDe(citaId).cliente_id
       THEN Permiso("verificarPermisosCita", u, citaId, TRUE, 0)
       ELSE Permiso("verificarPermisosCita", u, citaId, FALSE, 403)
  /\ UNCHANGED <<reserva, http, fcm_token, envios, calendario, filas_pago,
                 cuentas, limiter>>

\* ------------------------------------------ middleware/errorHandler (limiter)
\* rateLimiter(maxRequests, windowMs) is instantiated with a small limit and a
\* small window; the clock is read in the same unit as windowMs and stops at
\* MaxTiempo.
maxRequests == 2
windowMs == 3
MaxTiempo == 4

\* userRequests.length > maxRequests: a limiter that admits one request more.
ExcedidoMas(userRequests) == Len(userRequests) > maxRequests

\* userRequests.length >= maxRequests
Excedido(userRequests) == Len(userRequests) >= maxRequests

\* Date.now() moves on between two requests; it never goes back.
Reloj ==
  /\ limiter.now < MaxTiempo
  /\ limiter' = [limiter EXCEPT !.now = @ + 1]
  /\ UNCHANGED <<reserva, http, fcm_token, envios, calendario, filas_pago,
                 cuentas, permiso>>

\* One request from req.ip: requests is the Map of the closure (an IP is a
\* key once it has been seen), pasadas the times at which next() was called.
rateLimiter(ip) ==
  /\ LET now == limiter.now
         windowStart == now - windowMs
         Reciente(time) == time > windowStart
         userRequests == IF ip \in DOMAIN limiter.requests
                         THEN SelectSeq(limiter.requests[ip], Reciente)
                         ELSE <<>>
         otras == [i \in DOMAIN limiter.requests \ {ip} |-> limiter.requests[i]]
     IN IF Excedido(userRequests)
        THEN limiter' = [limiter EXCEPT
               !.requests = otras @@ (ip :> userRequests),
               !.ultimo = [ip |-> ip, status |-> 429, pasa |-> FALSE]]
        ELSE limiter' = [limiter EXCEPT
               !.requests = otras @@ (ip :> Append(userRequests, now)),
               !.pasadas[ip] = Append(@, now),
               !.ultimo = [ip |-> ip, status |-> 0, pasa |-> TRUE]]
  /\ UNCHANGED <<reserva, http, fcm_token, envios, calendario, filas_pago,
                 cuentas, permiso>>

\* ------------------------------------------------------ specifications
\* The steps a booking request takes after its first await.
Paso(r, falla) ==
  \/ crearCliente(r, falla)
  \/ insertarCita(r, falla)
  \/ insertarPago(r, falla)
  \/ insertarDetalle(r, falla)
  \/ enviarNotificaciones(r, falla)

\* Concurrent booking requests, any of whose queries may throw, and customer
\* cancellations.
Next ==
  \/ \E r \in Reqs, u \in Usuarios, body \in Bodies, falla \in BOOLEAN :
        procesarReservacion(r, u, body, falla)
  \/ \E r \in Reqs, falla \in BOOLEAN : Paso(r, falla)
  \/ \E u \in Usuarios, id \in CitaIds, falla \in BOOLEAN : cancelarCita(u, id, falla)

Spec == Init /\ [][Next]_vars

\* Bookings of one 30-minute service, with a total.
BodiesCitas == {b \in Bodies : b.servicios = <<Item(1, 1, 0)>> /\ b.total # 0}

\* The whole appointment lifecycle on a healthy store: bookings taken one at
\* a time, slot and staff queries, customer cancellations and the staff routes
\* of /citas.
NextCitas ==
  \/ \E r \in Reqs, u \in Usuarios, body \in BodiesCitas :
        EnVuelo = {} /\ procesarReservacion(r, u, body, FALSE)
  \/ \E r \in Reqs : Paso(r, FALSE)
  \/ \E q \in ConsultasHorarios : getHorariosDisponibles(q)
  \/ \E q \in ConsultasEmpleados : getEmpleadosDisponibles(q, FALSE)
  \/ \E u \in Usuarios, id \in CitaIds : cancelarCita(u, id, FALSE)
  \/ \E id \in CitaIds, e \in Estados : cambiarEstadoCita(id, e)
  \/ \E id \in CitaIds : deleteCita(id)
  \/ \E id \in CitaIds, h \in HorariosPedidos : updateCita(id, h)

SpecCitas == Init /\ [][NextCitas]_vars

\* Bodies of single bookings: an empty list, quantities above one, durations
\* sent or left out by the client, an id outside the catalog, a start at 23:45.
ListasReserva ==
  { <<>>, <<Item(1, 1, 0)>>, <<Item(1, 2, 0)>>, <<Item(1, 1, 45)>>,
    <<Item(2, 1, 0)>>, <<Item(2, 1, 60)>>, <<Item(3, 1, 0)>>,
    <<Item(3, 1, 0), Item(1, 1, 0)>>, <<Item(1, 1, 0), Item(2, 1, 60)>> }

HorariosReserva == HorariosPedidos \cup {1425}

BodiesReserva ==
  [empleadoId : Empleados, servicios : ListasReserva, fecha : {1},
   horario : HorariosReserva, total : {30}]

\* One booking request on a healthy store, followed to its response.
NextReserva ==
  \/ \E u \in Usuarios, body \in BodiesReserva : procesarReservacion(1, u, body, FALSE)
  \/ Paso(1, FALSE)

SpecReserva == Init /\ [][NextReserva]_vars

\* One request through router.use(protect) and the layers of its route.
NextAuth ==
  \/ \E cab \in Cabeceras, u \in DOMAIN usuarios \cup {0}, ruta \in Rutas :
        protect(cab, u, ruta)
  \/ \E falla \in BOOLEAN : verificarToken(falla)
  \/ continuaAuthorize
  \/ continuaProtect
  \/ responderHandler

SpecAuth == Init /\ [][NextAuth]_vars

\* Device tokens of the notificaciones_push table.
TokensPush == {np.token_dispositivo : np \in notificaciones_push}

\* One booking body per staff member.
BodiesPush ==
  {b \in BodiesCitas : b.horario = 555}

\* Bookings taken one at a time on a healthy store, and push dispatches for
\* the appointments they created.
NextPush ==
  \/ \E r \in Reqs, u \in Usuarios, body \in BodiesPush :
        EnVuelo = {} /\ procesarReservacion(r, u, body, FALSE)
  \/ \E r \in Reqs : Paso(r, FALSE)
  \/ \E id \in CitaIds, F \in SUBSET TokensPush, falla \in BOOLEAN :
        enviarNotificacionConfirmacion(id, F, falla)
  \/ \E id \in CitaIds, F \in SUBSET TokensPush, falla \in BOOLEAN :
        enviarNotificacionRecordatorio(id, F, falla)
  \/ \E id \in CitaIds, F \in SUBSET TokensPush, falla \in BOOLEAN :
        enviarNotificacionEmpleado(id, F, falla)

SpecPush == Init /\ [][NextPush]_vars

\* Bookings taken one at a time on a healthy store, and calendar calls for
\* the appointments they created.
NextCalendario ==
  \/ \E r \in Reqs, u \in Usuarios, body \in BodiesPush :
        EnVuelo = {} /\ procesarReservacion(r, u, body, FALSE)
  \/ \E r \in Reqs : Paso(r, FALSE)
  \/ \E id \in CitaIds, credenciales \in BOOLEAN, falla \in Fallas :
        crearEventoCita(id, credenciales, falla)
  \/ \E id \in CitaIds, credenciales \in BOOLEAN, falla \in Fallas :
        actualizarEventoCita(id, credenciales, falla)
  \/ \E id \in CitaIds, falla \in Fallas : cancelarEventoCita(id, falla)

SpecCalendario == Init /\ [][NextCalendario]_vars

\* Bookings taken one at a time on a healthy store, and payments recorded
\* and updated through the Pago model.
NextPago ==
  \/ \E r \in Reqs, u \in Usuarios, body \in BodiesPush :
        EnVuelo = {} /\ procesarReservacion(r, u, body, FALSE)
  \/ \E r \in Reqs : Paso(r, FALSE)
  \/ \E cita_id \in CitaIds, monto \in Montos, estado \in EstadosPago,
        falla \in BOOLEAN :
        PagoCrear([cita_id |-> cita_id, monto_total |-> monto,
                   estado_pago_id |-> estado], falla)
  \/ \E id \in 1..MaxPagos, datos \in DatosPago, falla \in BOOLEAN :
        PagoActualizar(id, datos, falla)

SpecPago == Init /\ [][NextPago]_vars

\* Staff ids of the empleado routes: a row of the table and an unknown id.
IdsEmpleado == {1, 9}

\* Staff removals and updates, with the logins, token refreshes, bearer-token
\* checks and staff lists that can follow them.
NextBaja ==
  \/ \E op \in {"deleteEmpleado", "updateEmpleado"}, id \in IdsEmpleado,
        activo \in BOOLEAN, falla \in BOOLEAN :
        buscarEmpleado(op, id, activo, falla)
  \/ \E falla \in BOOLEAN : deleteEmpleado(falla)
  \/ \E falla \in BOOLEAN : updateEmpleado(falla)
  \/ \E falla \in BOOLEAN : loginGoogle(1, 3, falla)
  \/ \E falla \in BOOLEAN : buscarUsuarioPorFirebaseUid(1, falla)
  \/ \E falla \in BOOLEAN : actualizarUltimoAcceso(1, falla)
  \/ \E falla \in BOOLEAN : refrescarToken(1, 3, falla)
  \/ protect("valido", 3, "POST /auth/logout")
  \/ \E falla \in BOOLEAN : verificarToken(falla)
  \/ continuaProtect
  \/ responderHandler
  \/ getAllEmpleados(FALSE)
  \/ getEmpleadosDisponibles(<<1>>, FALSE)

SpecBaja == Init /\ [][NextBaja]_vars

\* Promotions of users to staff, one request at a time.
NextPromocion ==
  \/ \E body \in BodiesEmpleado : createEmpleado(body)
  \/ \E falla \in BOOLEAN : promoverUsuario(falla)
  \/ \E falla \in BOOLEAN : getEmpleadoCompleto(falla)
  \/ getAllEmpleados(FALSE)

SpecPromocion == Init /\ [][NextPromocion]_vars

\* Bookings taken one at a time on a healthy store, and the permission
\* middleware run for an authenticated user.
NextPermisos ==
  \/ \E r \in Reqs, u \in Usuarios, body \in BodiesPush :
        EnVuelo = {} /\ procesarReservacion(r, u, body, FALSE)
  \/ \E r \in Reqs : Paso(r, FALSE)
  \/ \E u \in 1..4 : esAdmin(u)
  \/ \E u \in 1..4, id \in 0..2, falla \in BOOLEAN : verificarPropiedad(u, id, falla)
  \/ \E u \in 1..4, id \in {0} \cup CitaIds, falla \in BOOLEAN :
        verificarPermisosCita(u, id, falla)

SpecPermisos == Init /\ [][NextPermisos]_vars

\* Concurrent calls of loginGoogle, each stopping at its awaits.
NextLogin ==
  \/ \E p \in Procs, uid \in Uids, falla \in BOOLEAN : loginGoogle(p, uid, falla)
  \/ \E p \in Procs, falla \in BOOLEAN : buscarUsuarioPorFirebaseUid(p, falla)
  \/ \E p \in Procs, falla \in FallasCrear : crearUsuarioDesdeGoogle(p, falla)
  \/ \E p \in Procs, falla \in BOOLEAN : actualizarUltimoAcceso(p, falla)

SpecLogin == Init /\ [][NextLogin]_vars

\* Requests from a few addresses as the clock advances.
NextLimiter ==
  \/ Reloj
  \/ \E ip \in Ips : rateLimiter(ip)

SpecLimiter == Init /\ [][NextLimiter]_vars

\* ------------------------------------------------------------- claims
Activa(c) == c.estado # "cancelada"

\* C1: no two non-cancelled appointments of the same staff member have
\* overlapping [start, end) intervals.
C1_SinSolape ==
  \A a, b \in citas : (a.id # b.id /\ Activa(a) /\ Activa(b)) => ~ Solapan(a, b)

FilasDe(r) ==
  {c \in citas : c.id = reqs[r].citaId}
  \cup {p \in pagos : p.cita_id = reqs[r].citaId}
  \cup {d \in cita_servicio : d.cita_id = reqs[r].citaId}

\* C2: of two concurrent booking requests for the same staff member, date and
\* start time (neither hit by a storage failure), exactly one is answered 200
\* with a created appointment, the other is answered 409 (ConflictError) and
\* has left no appointment, payment or line-item row.
C2_ExactamenteUna ==
  \A r1, r2 \in Reqs :
    ( /\ r1 \in reqs[r2].conc
      /\ reqs[r1].pc = "fin" /\ reqs[r2].pc = "fin"
      /\ reqs[r1].turno = reqs[r2].turno
      /\ reqs[r1].status \notin {400, 500} /\ reqs[r2].status \notin {400, 500} )
    => \E g, p \in {r1, r2} :
         /\ g # p
         /\ reqs[g].status = 200 /\ Existe(reqs[g].citaId)
         /\ reqs[p].status = 409 /\ FilasDe(p) = {}

\* C3: a booking request that ended in an error has left no appointment,
\* payment or line-item row behind.
C3_TodoONada ==
  \A r \in Reqs :
    (reqs[r].pc = "fin" /\ reqs[r].status # 200) => FilasDe(r) = {}

RECURSIVE DuracionServicios(_)
\* Total duration of a list of service ids, from the catalog.
DuracionServicios(ids) ==
  IF ids = <<>> THEN 0
  ELSE servicios[Head(ids)].duracion + DuracionServicios(Tail(ids))

RespuestaHorarios == res.handler = "getHorariosDisponibles" /\ res.status = 200

\* C4: no slot the availability query returns overlaps a non-cancelled
\* appointment of that staff member on that date.
C4_HorariosSinCita ==
  RespuestaHorarios =>
    \A h \in res.horarios :
      ~ \E c \in citas :
          /\ Activa(c) /\ c.empleado_id = res.empleadoId /\ c.fecha = res.fecha
          /\ h < c.fin /\ c.inicio < h + DuracionServicios(res.servicios)

\* C5: every slot returned ends, with the total duration of the requested
\* services added, no later than the end of one of the staff member's working
\* windows of that weekday, and intersects none of the staff member's absences.
C5_HorariosEnJornada ==
  RespuestaHorarios =>
    \A h \in res.horarios :
      LET fin == h + DuracionServicios(res.servicios)
      IN /\ \E w \in HorariosEmpleado(res.empleadoId, DiaSemana(res.fecha)) : fin <= w.fin
         /\ \A a \in AusenciasEmpleado(res.empleadoId, res.fecha) :
              ~ (h < a.fin /\ a.ini < fin)

NoOfrecido(body) ==
  \E i \in 1..Len(body.servicios) :
    body.servicios[i].id \notin empleado_servicio[body.empleadoId]

\* C6: a booking request naming a service the chosen staff member does not
\* offer is rejected before any row is written: no appointment, payment or
\* line-item row of that request exists.
C6_ServicioNoOfrecido ==
  \A r \in Reqs :
    (reqs[r].pc \notin {"libre", "fin"} /\ NoOfrecido(reqs[r].body))
      => (reqs[r].citaId = 0 /\ FilasDe(r) = {})

\* C7: when the notification call of a booking fails, the request is still
\* answered 200 and its appointment, payment and line items are persisted.
C7_NotificacionNoDeshace ==
  \A r \in Reqs :
    (reqs[r].pc = "fin" /\ reqs[r].notif = "fallo") =>
      /\ reqs[r].status = 200
      /\ Existe(reqs[r].citaId)
      /\ \E p \in pagos : p.cita_id = reqs[r].citaId
      /\ Cardinality({d \in cita_servicio : d.cita_id = reqs[r].citaId}) = reqs[r].lineas

\* A booking whose notification failed has been answered, with a line item.
C7_Witness ==
  \E r \in Reqs :
    reqs[r].pc = "fin" /\ reqs[r].notif = "fallo" /\ reqs[r].lineas > 0

\* C8: once an appointment is completed or cancelled, no operation changes
\* its status again.
C8_Terminales ==
  [][\A c \in citas :
       c.estado \in Terminales => \E d \in citas' : d.id = c.id /\ d.estado = c.estado]_vars

\* C9: every status change follows an edge of the graph pending -> confirmed
\* -> in_progress -> completed, non-terminal -> cancelled; a request for any
\* other change is answered with an error and leaves the status as it was.
C9_Grafo ==
  [][\A c \in citas : \A d \in citas' :
       (d.id = c.id /\ d.estado # c.estado) => <<c.estado, d.estado>> \in Transiciones]_vars

C11_UnClientePorUsuario ==
  \A u \in Usuarios : Cardinality({c \in clientes : c.usuario_id = u}) <= 1

\* C12: the stored end time of every booked appointment is its start time
\* plus the sum of the catalog durations of the services selected, whatever
\* durations the request body carries.
C12_FinDesdeCatalogo ==
  \A r \in Reqs :
    LET lista == reqs[r].body.servicios
        dur[i \in 0..Len(lista)] ==
          IF i = 0 THEN 0
          ELSE dur[i - 1] + servicios[lista[i].id].duracion * lista[i].cantidad
    IN ( /\ reqs[r].pc \in {"crearPago", "detalles", "notificar"}
         /\ \A i \in 1..Len(lista) : lista[i].id \in DOMAIN servicios )
       => FilaDe(reqs[r].citaId).fin = FilaDe(reqs[r].citaId).inicio + dur[Len(lista)]

\* C13: every appointment row written by a booking ends strictly later than
\* it starts.
C13_FinDespuesDeInicio ==
  \A c \in citas : c.fecha * 1440 + c.fin > c.fecha * 1440 + c.inicio

\* C14: once the line-item loop of a booking is over, the appointment has one
\* line item per requested service and at least one; it still has at least one
\* when the request has been answered 200.
C14_UnaLineaPorServicio ==
  \A r \in Reqs :
    LET lineas == Cardinality({d \in cita_servicio : d.cita_id = reqs[r].citaId})
    IN /\ reqs[r].pc = "notificar" =>
            (lineas = Len(reqs[r].body.servicios) /\ lineas >= 1)
       /\ (reqs[r].pc = "fin" /\ reqs[r].status = 200) => lineas >= 1

\* C15: the staff query answers with exactly the active staff members, with
\* an active user account, who offer every requested service.
C15_OfrecenTodos ==
  (res.handler = "getEmpleadosDisponibles" /\ res.status = 200) =>
    res.empleados =
      {e \in DOMAIN empleados :
         /\ empleados[e].activo
         /\ usuarios[empleados[e].usuario_id].activo
         /\ \A i \in 1..Len(res.servicios) : res.servicios[i] \in empleado_servicio[e]}

\* C19: the slot query is answered 400 when empleadoId, fecha or servicios is
\* missing, and 200 otherwise.
C19_HorariosSinParametros ==
  [][\A q \in ConsultasHorarios :
       getHorariosDisponibles(q) =>
         res'.status = IF q.empleadoId = 0 \/ q.fecha = SinFecha \/ q.servicios = <<>>
                       THEN 400 ELSE 200]_vars

\* C16: a customer cancellation sets the appointment to cancelled only when
\* it belongs to a customer record of the caller; for an appointment that does
\* not exist or belongs to someone else the answer is 404 and no appointment
\* changes.
C16_SoloElDueno ==
  [][\A u \in Usuarios, id \in CitaIds :
       cancelarCita(u, id, FALSE) =>
         IF \E c \in citas, k \in clientes :
              c.id = id /\ c.cliente_id = k.id /\ k.usuario_id = u
         THEN citas' = MarcarCancelada(id)
         ELSE res'.status = 404 /\ citas' = citas]_vars

\* The role names of the rol_id values.
NombreRol(rol_id) ==
  CASE rol_id = 1 -> "administrador" [] rol_id = 2 -> "empleado"
    [] rol_id = 3 -> "cliente" [] rol_id = 4 -> "dueno"

\* C17: the handler of a route with authorize(...) runs only for a caller
\* whose role is one of the roles the route names.
C17_SoloRolPermitido ==
  (http.ejecuciones > 0 /\ RolesDe(http.ruta) # <<>>) =>
    /\ http.req_usuario # 0
    /\ includes(RolesDe(http.ruta), Str(NombreRol(usuarios[http.req_usuario].rol_id)))

\* C18: a request behind protect with a missing, invalid or expired token, or
\* with the token of an inactive user, is answered 401 (500 when the user
\* lookup itself failed) and its handler never runs.
C18_SinTokenNoPasa ==
  ( /\ http.pc = "enCurso"
    /\ \/ http.cabecera # "valido"
       \/ ~ usuarios[http.decoded].activo )
  => /\ http.ejecuciones = 0
     /\ http.enviado \in (IF http.cabecera = "valido" THEN {401, 500} ELSE {401})

\* C20: a dispatch never selects a device token that an earlier dispatch was
\* told had failed, and what it delivers are the tokens it selected that did
\* not fail.
C20_TokensPodados ==
  [][envios'.n > envios.n =>
       /\ envios'.tokens \cap envios.fallidos = {}
       /\ envios'.entregados = envios'.tokens \ envios'.fallidos]_vars

\* C21: a failure inside a calendar-sync call (create, update or cancel
\* event) is caught and logged inside that call and never propagates to its
\* caller as an exception.
C21_NuncaPropaga == calendario.resultado # "lanza"

\* C22: after any sequence of Pago.crear and Pago.actualizar, the sum of the
\* amounts of an appointment's payments in status Completado or Parcial does
\* not exceed the appointment's computed total.
C22_PagadoNoExcede ==
  \A c \in citas :
    EnVuelo = {}
      => obtenerTotalPagadoPorCita(c.id) <= TotalCita(c.id)

\* The accounts of the staff members removed by DELETE /api/empleados/:id and
\* not switched on again.
UsuariosDeBaja == {empleados[e].usuario_id : e \in emp.bajas}

\* A Google login that read its usuarios row while the account was removed
\* fails; so do a token refresh and a bearer-token check of that account, and
\* no staff list that is answered names the removed staff member.
TrasLaBaja ==
  /\ \A p \in Procs :
       /\ (/\ logins[p].pc = "buscar" /\ logins'[p].pc # "buscar"
           /\ UsuarioPorUid(logins[p].uid) \in UsuariosDeBaja)
            => (logins'[p].resultado = "lanza" \/ ~ logins'[p].activo)
       /\ (/\ logins'[p] # logins[p] /\ logins'[p].op = "refrescarToken"
           /\ logins'[p].usuario \in UsuariosDeBaja)
            => logins'[p].resultado = "lanza"
  /\ (/\ http.pc = "consulta" /\ http'.pc # "consulta"
      /\ http.decoded \in UsuariosDeBaja)
       => (http'.req_usuario = 0 /\ http'.enviado \in {401, 500})
  /\ (/\ res' # res /\ res'.status = 200
      /\ res'.handler \in {"getAllEmpleados", "getEmpleadosDisponibles"})
       => res'.empleados \cap emp.bajas = {}

C24_PromocionAtomica ==
  (emp.pc = "fin" /\ emp.op = "createEmpleado") =>
    IF emp.status = 201
    THEN /\ usuarios[emp.body.usuario_id].rol_id = 2
         /\ ~ \E c \in clientes : c.usuario_id = emp.body.usuario_id
         /\ emp.id \in DOMAIN empleados
         /\ empleados[emp.id].usuario_id = emp.body.usuario_id
         /\ FilasPerfil(emp.id, emp.body) \subseteq perfiles
    ELSE emp.id = 0

\* A request that every layer and handler has finished with.
Atendida == http.pc = "enCurso" /\ http.micro = <<>> /\ http.io = 0

\* C25: GET /api/auth/stats returns the statistics only to callers whose role
\* is administrador (rol_id 1) or dueno (rol_id 4); a caller with any other
\* role, including cliente (rol_id 3), is denied.
C25_EstadisticasSoloAdmin ==
  (Atendida /\ http.ruta = "GET /auth/stats" /\ http.req_usuario # 0) =>
    (http.enviado = 200 <=> usuarios[http.req_usuario].rol_id \in {1, 4})

\* C26: an authenticated caller whose role is one of the roles named in a
\* route's authorize(...) list is admitted to the handler and is not answered
\* 403.
C26_RolPermitidoPasa ==
  ( /\ Atendida /\ http.req_usuario # 0
    /\ includes(RolesDe(http.ruta),
                Str(NombreRol(usuarios[http.req_usuario].rol_id))) )
  => (http.enviado # 403 /\ http.ejecuciones > 0)

\* C27: for every request passing through protect and authorize, each
\* middleware invokes next() at most once and never after it has already sent
\* a response, so the downstream handler runs at most once and at most one
\* response is sent per request.
C27_UnSoloNext ==
  /\ http.llamadas.protect <= 1
  /\ http.llamadas.authorize <= 1
  /\ ~ http.tardio
  /\ http.ejecuciones <= 1

\* C28: a user whose role is cliente (rol_id 3, the role of every new user)
\* passes verificarPermisosCita only for appointments whose customer is that
\* user, and is never treated as an administrator by esAdmin,
\* verificarPropiedad or verificarPermisosCita.
C28_ClienteSoloLoSuyo ==
  (permiso.pasa /\ usuarios[permiso.usuario].rol_id = 3) =>
    /\ permiso.mw # "esAdmin"
    /\ permiso.mw = "verificarPropiedad" =>
         \E k \in clientes :
           k.id = permiso.id /\ k.usuario_id = permiso.usuario
    /\ permiso.mw = "verificarPermisosCita" =>
         \E c \in citas, k \in clientes :
           /\ c.id = permiso.id /\ k.id = c.cliente_id
           /\ k.usuario_id = permiso.usuario

\* C29: after any interleaving of loginGoogle calls carrying the same
\* Firebase uid, two concurrent first logins included, there is exactly one
\* usuarios row and exactly one clientes row for that uid: never more than
\* one of either, one usuarios row once a login with that uid has succeeded,
\* and one clientes row too when that login created the account.
C29_UnaFilaPorUid ==
  \A uid \in Uids :
    LET filas == {u \in DOMAIN usuarios : usuarios[u].firebase_uid = uid}
        perfil == {k \in clientes : k.usuario_id \in filas}
        entro == \E p \in Procs :
                   /\ logins[p].op = "loginGoogle" /\ logins[p].uid = uid
                   /\ logins[p].pc = "fin" /\ logins[p].resultado = "ok"
    IN /\ Cardinality(filas) <= 1
       /\ Cardinality(perfil) <= 1
       /\ entro => Cardinality(filas) = 1
       /\ (entro /\ \A u \in DOMAIN TablaUsuarios :
                      TablaUsuarios[u].firebase_uid # uid)
            => Cardinality(perfil) = 1

\* The requests of an IP passed on to next() within the windowMs before now.
PasadasEnVentana(ip) ==
  Cardinality({i \in DOMAIN limiter.pasadas[ip] :
                 limiter.pasadas[ip][i] > limiter.now - windowMs})

\* A request handled by rateLimiter: one beyond the limit gets 429, is not
\* passed on and adds no timestamp; any other is passed on and recorded.
PeticionLimitada ==
  (limiter' # limiter /\ limiter'.now = limiter.now) =>
    LET ip == limiter'.ultimo.ip
        antes == IF ip \in DOMAIN limiter.requests
                 THEN {i \in DOMAIN limiter.requests[ip] :
                         limiter.requests[ip][i] > limiter.now - windowMs}
                 ELSE {}
    IN IF PasadasEnVentana(ip) >= maxRequests
       THEN /\ limiter'.ultimo.status = 429 /\ ~ limiter'.ultimo.pasa
            /\ limiter'.pasadas = limiter.pasadas
            /\ Len(limiter'.requests[ip]) = Cardinality(antes)
       ELSE /\ limiter'.ultimo.pasa /\ limiter'.ultimo.status = 0
            /\ limiter'.pasadas[ip] = Append(limiter.pasadas[ip], limiter.now)
            /\ Len(limiter'.requests[ip]) = Cardinality(antes) + 1

\* C30: for every IP and at every moment, at most maxRequests requests of
\* that IP were passed on to next() within the preceding windowMs; a request
\* beyond the limit gets 429, is not passed on and is not added to the IP's
\* recorded timestamps.
C30_VentanaLimitada ==
  /\ [](\A ip \in Ips : PasadasEnVentana(ip) <= maxRequests)
  /\ [][PeticionLimitada]_vars

\* A request was answered 429 for an IP that, in an earlier window, had
\* already used its whole allowance and was admitted again afterwards.
C30_Witness ==
  /\ limiter.ultimo.status = 429
  /\ Len(limiter.pasadas[limiter.ultimo.ip]) > maxRequests
  /\ PasadasEnVentana(limiter.ultimo.ip) = maxRequests

====
